---- MODULE Spec2Model ----
(***************************************************************************)
(* Pegasus research pipeline: RecursiveSectionalAgent of agent.py, and the  *)
(* class of the same name of pegasus.py (the definitions named Pegasus...   *)
(* and ChatWithRetry..., explored by their own specifications; they share  *)
(* the variables of the attributes and locals that have the same names).   *)
(*                                                                         *)
(* The model follows RecursiveSectionalAgent.run statement by statement:   *)
(* query-vector generation, per-vector mining (search, fetch, summarize)   *)
(* and sectional synthesis, with safe_chat unfolded into its attempts.     *)
(* The collaborators (client.chat, DDGS().text, trafilatura) are opaque:   *)
(* every call either raises or returns, chosen nondeterministically.       *)
(*                                                                         *)
(* Abstractions:                                                           *)
(*  - a text is a record carrying its length, slicing text[:n] keeps       *)
(*    min(length, n) characters;                                           *)
(*  - an exception raised by client.chat is identified by the position of  *)
(*    the failing call in the current request;                             *)
(*  - `events` holds the signals other than log_sig in emission order,     *)
(*    `last_sig` the kind of the signal emitted last (log_sig included).   *)
(***************************************************************************)
EXTENDS Naturals, Sequences, FiniteSets, TLC

(* ---------------- configuration (config.py) ---------------- *)
PRIMARY_MODEL == "gpt-oss:120b"
FALLBACK_MODEL == "llama3.1"
MAX_CHARS_PER_SOURCE == 2000
MAX_MASTER_CONTEXT_CHARS == 10000

(* ---------------- bounds of the environment ---------------- *)
\* safe_chat(messages, retries = k) on its own is explored for k in 0..MaxRetries
MaxRetries == 2
\* length of the longest list literal the LLM answers with
MaxQueries == 2
\* number of results one search returns (at most MAX_SOURCES_PER_VECTOR)
MaxResults == 2

\* def safe_chat(self, messages, retries=2): run never passes retries
DefaultRetries == 2
\* default of the parameter max_retries of chat_with_retry (pegasus.py)
DefaultMaxRetries == 3

Target == "Acme"

\* report_sections of run: the configured titles, in order
ReportSections ==
    << "Executive Summary", "SWOT Analysis", "PESTLE Analysis",
       "Competitive Landscape", "Strategic Outlook" >>

NumSections == Len(ReportSections)

VARIABLES
    pc,               \* position of run
    phase,            \* the stage run has entered last
    outcome,          \* "RUNNING", then "DONE" or "FAILED"
    exc,              \* the exception propagating to run's outer handler
    model,            \* self.model
    retries,          \* parameter of safe_chat
    caller,           \* the request safe_chat is serving
    attempt,          \* loop variable of safe_chat
    last_error,       \* local of safe_chat (0 is None)
    chatLog,          \* the client.chat calls of the current request
    ret,              \* the response safe_chat returned
    engaged,          \* safe_chat has switched to the fallback model
    switches,         \* number of assignments changing self.model
    response,         \* local of run: content of the vector response
    queries,          \* local of run
    idx,              \* loop index of the mining loop (0-based)
    results,          \* local of run: hrefs of the results of the last search
    url,              \* local of run, unbound until the first result
    raw_texts,        \* local of run
    vector_summaries, \* self.vector_summaries
    fetchLog,         \* the trafilatura.fetch_url calls of the run
    succeeded,        \* positions of the queries whose summarization returned
    section_prompts,  \* the section_prompt of every section call of the run
    context,          \* local of run
    sec,              \* loop index of the synthesis loop (0-based)
    events,           \* signals emitted, log_sig excluded
    last_sig,         \* kind of the signal emitted last
    max_retries,      \* pegasus.py: parameter of chat_with_retry
    waits,            \* pegasus.py: the time.sleep calls of the current request
    sub_prompt,       \* pegasus.py: local of run, unbound until first assigned
    intel_txt,        \* pegasus.py: local of run
    input_subject,    \* ui.py: text of the subject field
    btn_run,          \* ui.py: the deploy button is enabled
    threads,          \* ui.py: position of every worker created so far
    gui_queue         \* ui.py: slot calls queued for the GUI thread

vars ==
    << pc, phase, outcome, exc, model, retries, caller, attempt, last_error,
       chatLog, ret, engaged, switches, response, queries, idx, results, url,
       raw_texts, vector_summaries, fetchLog, succeeded, section_prompts,
       context, sec, events, last_sig, max_retries, waits, sub_prompt,
       intel_txt, input_subject, btn_run, threads, gui_queue >>

\* the variables of PegasusTerminal (ui.py)
uiVars == << input_subject, btn_run, threads, gui_queue >>

\* the variables only pegasus.py has
pegasusVars == << max_retries, waits, sub_prompt, intel_txt >>
\* the variables only agent.py has
agentVars ==
    << retries, last_error, engaged, switches, url, fetchLog, succeeded,
       section_prompts >>

chatVars == << model, attempt, last_error, chatLog, ret, engaged, switches >>
modelVars == << model, engaged, switches >>
mineVars ==
    << response, queries, idx, results, url, raw_texts, vector_summaries,
       fetchLog >>

\* the summarization of the current query has returned
NoteSuccess(stage) ==
    succeeded' = IF stage = "summary" THEN Append(succeeded, idx + 1) ELSE succeeded

(* ---------------- values ---------------- *)
Unbound == "<unbound>"
None == "<None>"
NoResponse == [content |-> None, by |-> 0]
NoException == [kind |-> None, id |-> 0]
\* sub_prompt of pegasus.py before its first assignment
UnboundPrompt == [q |-> Unbound, texts |-> << >>]

Min(a, b) == IF a <= b THEN a ELSE b

Signal(sig, a, b) == [sig |-> sig, a |-> a, b |-> b]

\* the signals of one kind, in emission order
RECURSIVE Signals(_, _)
Signals(evs, sig) ==
    IF evs = << >> THEN << >>
    ELSE (IF Head(evs).sig = sig THEN << Head(evs) >> ELSE << >>)
         \o Signals(Tail(evs), sig)

(* ---------------- safe_chat ---------------- *)
\* variant: range(retries), one attempt fewer
MaxAttemptsOffByOne(k) == k
\* range(retries + 1): the number of attempts of the retry loop
MaxAttempts(k) == k + 1

\* variant: the configured primary instead of self.model
ChatModelPrimary == PRIMARY_MODEL
\* the model identity handed to client.chat
ChatModel == model

\* variant: only the first error is remembered
KeepFirstError(prev, e) == IF prev = 0 THEN e ELSE prev
\* except Exception as e: last_error = e
LastError(prev, e) == e

\* one client.chat call, as the log of the request records it
ChatCall(stage, ok) ==
    [stage |-> stage, model |-> ChatModel, ok |-> ok, engaged |-> engaged]

\* the content of a response, as far as run looks at it; "bad-literal" is
\* any content that makes the try block of the parsing raise
ListLiteral(n) == "list:" \o ToString(n)
VectorResponses ==
    {"no-bracket", "bad-literal"} \cup {ListLiteral(n) : n \in 0..MaxQueries}
Intel(q) == "intel:" \o q
SectionText(title) == "text:" \o title

ResponseOf(stage) ==
    IF stage = "vectors" THEN VectorResponses
    ELSE {Intel(queries[idx + 1])}

\* variant: a summary sends run back to the summarization test
ReturnToSummarize(stage) == IF stage = "vectors" THEN "parse" ELSE "summarize"
\* where run goes on when safe_chat returns
ReturnTo(stage) == IF stage = "vectors" THEN "parse" ELSE "summarized"

\* run has taken the response: the frame of safe_chat is gone
LeaveSafeChat ==
    /\ attempt' = 0
    /\ last_error' = 0
    /\ chatLog' = << >>
    /\ ret' = NoResponse

\* entry of safe_chat: last_error = None, the loop starts
EnterSafeChat(stage) ==
    /\ pc' = "chat"
    /\ caller' = stage
    /\ attempt' = 0
    /\ last_error' = 0
    /\ chatLog' = << >>
    /\ ret' = NoResponse

\* an attempt of the loop returns: safe_chat returns the response
ChatAttemptOk ==
    /\ pc = "chat"
    /\ attempt < MaxAttempts(retries)
    /\ \E c \in ResponseOf(caller) :
          ret' = [content |-> c, by |-> Len(chatLog) + 1]
    /\ chatLog' = Append(chatLog, ChatCall(caller, TRUE))
    /\ pc' = ReturnTo(caller)
    /\ UNCHANGED << phase, outcome, exc, model, retries, caller, attempt,
                    last_error, engaged, switches, context, sec, events,
                    last_sig >>
    /\ UNCHANGED mineVars
    /\ NoteSuccess(caller)
    /\ UNCHANGED section_prompts
    /\ UNCHANGED pegasusVars
    /\ UNCHANGED uiVars

\* an attempt of the loop raises: remember the error, log, next attempt
ChatAttemptFail ==
    /\ pc = "chat"
    /\ attempt < MaxAttempts(retries)
    /\ chatLog' = Append(chatLog, ChatCall(caller, FALSE))
    /\ last_error' = LastError(last_error, Len(chatLog) + 1)
    /\ attempt' = attempt + 1
    /\ last_sig' = "log"
    /\ UNCHANGED << pc, phase, outcome, exc, model, retries, caller, ret,
                    engaged, switches, context, sec, events >>
    /\ UNCHANGED mineVars
    /\ UNCHANGED succeeded
    /\ UNCHANGED section_prompts
    /\ UNCHANGED pegasusVars
    /\ UNCHANGED uiVars

\* the loop is over and self.model is not the fallback: log, switch, and
\* one more call, which returns
ChatFallbackOk ==
    /\ pc = "chat"
    /\ attempt >= MaxAttempts(retries)
    /\ model # FALLBACK_MODEL
    /\ model' = FALLBACK_MODEL
    /\ engaged' = TRUE
    /\ switches' = switches + 1
    /\ \E c \in ResponseOf(caller) :
          ret' = [content |-> c, by |-> Len(chatLog) + 1]
    /\ chatLog' = Append(chatLog,
          [stage |-> caller, model |-> ChatModel', ok |-> TRUE, engaged |-> engaged'])
    /\ pc' = ReturnTo(caller)
    /\ last_sig' = "log"
    /\ UNCHANGED << phase, outcome, exc, retries, caller, attempt, last_error,
                    context, sec, events >>
    /\ UNCHANGED mineVars
    /\ NoteSuccess(caller)
    /\ UNCHANGED section_prompts
    /\ UNCHANGED pegasusVars
    /\ UNCHANGED uiVars

\* the same, and the fallback call raises: its exception leaves safe_chat
ChatFallbackFail ==
    /\ pc = "chat"
    /\ attempt >= MaxAttempts(retries)
    /\ model # FALLBACK_MODEL
    /\ model' = FALLBACK_MODEL
    /\ engaged' = TRUE
    /\ switches' = switches + 1
    /\ chatLog' = Append(chatLog,
          [stage |-> caller, model |-> ChatModel', ok |-> FALSE, engaged |-> engaged'])
    /\ exc' = [kind |-> "LLMExhausted", id |-> Len(chatLog) + 1]
    /\ pc' = "raised"
    /\ last_sig' = "log"
    /\ UNCHANGED << phase, outcome, retries, caller, attempt, last_error, ret,
                    context, sec, events >>
    /\ UNCHANGED mineVars
    /\ UNCHANGED succeeded
    /\ UNCHANGED section_prompts
    /\ UNCHANGED pegasusVars
    /\ UNCHANGED uiVars

\* the loop is over and self.model is the fallback already: raise last_error
ChatRaise ==
    /\ pc = "chat"
    /\ attempt >= MaxAttempts(retries)
    /\ model = FALLBACK_MODEL
    /\ exc' = [kind |-> "LLMExhausted", id |-> last_error]
    /\ pc' = "raised"
    /\ UNCHANGED << phase, outcome, retries, caller, context, sec, events,
                    last_sig >>
    /\ UNCHANGED chatVars
    /\ UNCHANGED mineVars
    /\ UNCHANGED succeeded
    /\ UNCHANGED section_prompts
    /\ UNCHANGED pegasusVars
    /\ UNCHANGED uiVars

(* ---------------- run: phase 1 ---------------- *)
\* log the deployment, build the prompt, call safe_chat
Start ==
    /\ pc = "start"
    /\ phase' = "vectors"
    /\ EnterSafeChat("vectors")
    /\ last_sig' = "log"
    /\ UNCHANGED << outcome, exc, model, retries, engaged, switches, context,
                    sec, events >>
    /\ UNCHANGED mineVars
    /\ UNCHANGED succeeded
    /\ UNCHANGED section_prompts
    /\ UNCHANGED pegasusVars
    /\ UNCHANGED uiVars

TargetOnly == << Target >>
DefaultQueries == << Target \o " market analysis", Target \o " competitors" >>

\* variant: an empty literal is replaced by the target
ParsedListNeverEmpty(n) ==
    IF n = 0 THEN << Target >> ELSE [i \in 1..n |-> "q" \o ToString(i)]
\* the list a well-formed literal of n queries evaluates to
ParsedList(n) == [i \in 1..n |-> "q" \o ToString(i)]

ListOf(content) ==
    ParsedList(CHOOSE n \in 0..MaxQueries : content = ListLiteral(n))

\* variant: no match is treated like a parsing failure
ParseQueriesNoMatchDefault(content) ==
    IF content \in {"no-bracket", "bad-literal"} THEN DefaultQueries
    ELSE ListOf(content)
\* variant: a parsing failure is treated like no match
ParseQueriesFailTargetOnly(content) ==
    IF content \in {"no-bracket", "bad-literal"} THEN TargetOnly
    ELSE ListOf(content)
\* re.search and ast.literal_eval under try/except: no match gives
\* [self.target], an exception the two default queries
ParseQueries(content) ==
    IF content = "no-bracket" THEN TargetOnly
    ELSE IF content = "bad-literal" THEN DefaultQueries
    ELSE ListOf(content)

\* safe_chat returned the vector response: parse it, enter the mining loop
Parse ==
    /\ pc = "parse"
    /\ response' = ret.content
    /\ queries' = ParseQueries(ret.content)
    /\ idx' = 0
    /\ phase' = "mining"
    /\ pc' = "mine"
    /\ LeaveSafeChat
    /\ UNCHANGED << outcome, exc, retries, caller, results, url, raw_texts,
                    vector_summaries, fetchLog, context, sec, events,
                    last_sig >>
    /\ UNCHANGED modelVars
    /\ UNCHANGED succeeded
    /\ UNCHANGED section_prompts
    /\ UNCHANGED pegasusVars
    /\ UNCHANGED uiVars

(* ---------------- run: phase 2 ---------------- *)
\* int(((idx + 1) / len(queries)) * 50); the double arithmetic of Python
\* agrees with the integer quotient for every len(queries) below 50
MiningProgress(i, n) == (50 * i) \div n

\* loop head: emit the query, log, raw_texts = []
MineVector ==
    /\ pc = "mine"
    /\ idx < Len(queries)
    /\ events' = Append(events, Signal("query", queries[idx + 1], None))
    /\ last_sig' = "log"
    /\ raw_texts' = << >>
    /\ pc' = "search"
    /\ UNCHANGED << phase, outcome, exc, retries, caller, response, queries,
                    idx, results, url, vector_summaries, fetchLog, context,
                    sec >>
    /\ UNCHANGED chatVars
    /\ UNCHANGED succeeded
    /\ UNCHANGED section_prompts
    /\ UNCHANGED pegasusVars
    /\ UNCHANGED uiVars

UrlOf(i, j) == "u" \o ToString(i) \o "." \o ToString(j)

\* the result lists a search can return: result j of query i has the href
\* UrlOf(i, j) or none
ResultLists(i) ==
    UNION { [1..n -> {None} \cup {UrlOf(i, j) : j \in 1..n}] : n \in 1..MaxResults }

WellFormed(i, r) == \A j \in DOMAIN r : r[j] \in {None, UrlOf(i, j)}

RECURSIVE UrlSignals(_, _)
UrlSignals(q, r) ==
    IF r = << >> THEN << >>
    ELSE (IF Head(r) # None THEN << Signal("url", q, Head(r)) >> ELSE << >>)
         \o UrlSignals(q, Tail(r))

\* DDGS().text raises (and the failure is logged) or returns nothing:
\* results = [] and the loop over the results has no iteration
SearchEmpty ==
    /\ pc = "search"
    /\ results' = << >>
    /\ \E raised \in BOOLEAN :
          last_sig' = IF raised THEN "log" ELSE last_sig
    /\ pc' = "fetch"
    /\ UNCHANGED << phase, outcome, exc, retries, caller, response, queries,
                    idx, url, raw_texts, vector_summaries, fetchLog, context,
                    sec, events >>
    /\ UNCHANGED chatVars
    /\ UNCHANGED succeeded
    /\ UNCHANGED section_prompts
    /\ UNCHANGED pegasusVars
    /\ UNCHANGED uiVars

\* DDGS().text returns results: the loop binds url for each of them and
\* emits url_sig for each result with an href
SearchReturns ==
    /\ pc = "search"
    /\ \E r \in ResultLists(idx + 1) :
          /\ WellFormed(idx + 1, r)
          /\ results' = r
          /\ url' = r[Len(r)]
          /\ events' = events \o UrlSignals(queries[idx + 1], r)
          /\ last_sig' = IF \E j \in DOMAIN r : r[j] # None THEN "url" ELSE last_sig
    /\ pc' = "fetch"
    /\ UNCHANGED << phase, outcome, exc, retries, caller, response, queries,
                    idx, raw_texts, vector_summaries, fetchLog, context, sec >>
    /\ UNCHANGED chatVars
    /\ UNCHANGED succeeded
    /\ UNCHANGED section_prompts
    /\ UNCHANGED pegasusVars
    /\ UNCHANGED uiVars

\* the lengths of the texts trafilatura.extract returns
ExtractLens == {MAX_CHARS_PER_SOURCE - 800, MAX_CHARS_PER_SOURCE + 3000}

\* variant: the text is kept whole
TruncateNever(text, n) == text
\* extracted[: config.MAX_CHARS_PER_SOURCE]: a text is the page it was
\* extracted from, the length trafilatura.extract gave it and the length of
\* the prefix of it that is kept
Truncate(text, n) == [text EXCEPT !.len = Min(text.len, n)]

\* the try block after the loop over the results, url never bound: reading
\* url raises UnboundLocalError, the handler reads url as well and raises it
\* again, out of the mining loop
FetchUnbound ==
    /\ pc = "fetch"
    /\ url = Unbound
    /\ exc' = [kind |-> "UnboundLocalError", id |-> 0]
    /\ pc' = "raised"
    /\ UNCHANGED << phase, outcome, retries, caller, context, sec, events,
                    last_sig >>
    /\ UNCHANGED chatVars
    /\ UNCHANGED mineVars
    /\ UNCHANGED succeeded
    /\ UNCHANGED section_prompts
    /\ UNCHANGED pegasusVars
    /\ UNCHANGED uiVars

\* fetch_url raises or returns nothing, or extract raises: log, continue
\* (the progress signal of this vector is skipped)
FetchSkipped ==
    /\ pc = "fetch"
    /\ url # Unbound
    /\ fetchLog' = Append(fetchLog, [q |-> idx + 1, url |-> url])
    /\ last_sig' = "log"
    /\ idx' = idx + 1
    /\ pc' = "mine"
    /\ UNCHANGED << phase, outcome, exc, retries, caller, response, queries,
                    results, url, raw_texts, vector_summaries, context, sec,
                    events >>
    /\ UNCHANGED chatVars
    /\ UNCHANGED succeeded
    /\ UNCHANGED section_prompts
    /\ UNCHANGED pegasusVars
    /\ UNCHANGED uiVars

\* fetch_url returns a page of the url bound last; extract returns a text,
\* which is truncated and appended, or nothing
FetchExtracted ==
    /\ pc = "fetch"
    /\ url \notin {Unbound, None}
    /\ fetchLog' = Append(fetchLog, [q |-> idx + 1, url |-> url])
    /\ \/ raw_texts' = raw_texts
       \/ \E n \in ExtractLens :
             raw_texts' = Append(raw_texts,
                 Truncate([url |-> url, extracted |-> n, len |-> n],
                          MAX_CHARS_PER_SOURCE))
    /\ pc' = "summarize"
    /\ UNCHANGED << phase, outcome, exc, retries, caller, response, queries,
                    idx, results, url, vector_summaries, context, sec, events,
                    last_sig >>
    /\ UNCHANGED chatVars
    /\ UNCHANGED succeeded
    /\ UNCHANGED section_prompts
    /\ UNCHANGED pegasusVars
    /\ UNCHANGED uiVars

\* if raw_texts: build the prompt and call safe_chat
SummarizeCall ==
    /\ pc = "summarize"
    /\ raw_texts # << >>
    /\ EnterSafeChat("summary")
    /\ UNCHANGED << phase, outcome, exc, model, retries, engaged, switches,
                    context, sec, events, last_sig >>
    /\ UNCHANGED mineVars
    /\ UNCHANGED succeeded
    /\ UNCHANGED section_prompts
    /\ UNCHANGED pegasusVars
    /\ UNCHANGED uiVars

\* raw_texts is empty: only the progress signal
SummarizeSkip ==
    /\ pc = "summarize"
    /\ raw_texts = << >>
    /\ events' = Append(events,
          Signal("progress", MiningProgress(idx + 1, Len(queries)), None))
    /\ last_sig' = "progress"
    /\ idx' = idx + 1
    /\ pc' = "mine"
    /\ UNCHANGED << phase, outcome, exc, retries, caller, response, queries,
                    results, url, raw_texts, vector_summaries, fetchLog,
                    context, sec >>
    /\ UNCHANGED chatVars
    /\ UNCHANGED succeeded
    /\ UNCHANGED section_prompts
    /\ UNCHANGED pegasusVars
    /\ UNCHANGED uiVars

\* variant: the new summary is put in front
PrependSummary(s, e) == << e >> \o s
\* self.vector_summaries.append(...)
AppendSummary(s, e) == Append(s, e)

\* safe_chat returned: emit the summary, append it, emit the progress
Summarized ==
    /\ pc = "summarized"
    /\ events' = events \o
          << Signal("vector_intel", queries[idx + 1], ret.content),
             Signal("progress", MiningProgress(idx + 1, Len(queries)), None) >>
    /\ last_sig' = "progress"
    /\ vector_summaries' = AppendSummary(vector_summaries,
          [query |-> queries[idx + 1], intel |-> ret.content])
    /\ idx' = idx + 1
    /\ pc' = "mine"
    /\ LeaveSafeChat
    /\ UNCHANGED << phase, outcome, exc, retries, caller, response, queries,
                    results, url, raw_texts, fetchLog, context, sec >>
    /\ UNCHANGED modelVars
    /\ UNCHANGED succeeded
    /\ UNCHANGED section_prompts
    /\ UNCHANGED pegasusVars
    /\ UNCHANGED uiVars

(* ---------------- run: phase 3 ---------------- *)
\* the number of characters of a summary the LLM returns: more than half of
\* MAX_MASTER_CONTEXT_CHARS, so that one summary fits the context and two
\* do not
SummaryChars == MAX_MASTER_CONTEXT_CHARS \div 2 + 1000
IntelLen(intel) == SummaryChars

\* "RESEARCH DATA FOR {query}: {intel_text}"
EntryLen(e) ==
    Len("RESEARCH DATA FOR ") + Len(e.query) + Len(": ") + IntelLen(e.intel)

RECURSIVE JoinLen(_)
JoinLen(s) ==
    IF s = << >> THEN 0
    ELSE IF Len(s) = 1 THEN EntryLen(s[1])
    ELSE EntryLen(s[1]) + 2 + JoinLen(Tail(s))

\* variant: the joined summaries are not cut
MasterContextUncut(s) == [entries |-> s, len |-> JoinLen(s)]
\* "\n\n".join(self.vector_summaries)[: config.MAX_MASTER_CONTEXT_CHARS]
MasterContext(s) ==
    [entries |-> s, len |-> Min(JoinLen(s), MAX_MASTER_CONTEXT_CHARS)]

\* variant: the section progress starts again from zero
SectionProgressFromZero(i, n) == (100 * i) \div n
\* 50 + int(((idx + 1) / len(report_sections)) * 50)
SectionProgress(i, n) == 50 + (50 * i) \div n

\* variant: the loop over the queries is left one query early
MiningOverEarly == idx + 1 >= Len(queries)
\* for idx, query in enumerate(queries) has no further iteration
MiningOver == idx >= Len(queries)

\* the mining loop is over: log, join and truncate the summaries
BeginSynthesis ==
    /\ pc = "mine"
    /\ MiningOver
    /\ context' = MasterContext(vector_summaries)
    /\ sec' = 0
    /\ last_sig' = "log"
    /\ phase' = "synthesis"
    /\ pc' = "synth"
    /\ UNCHANGED << outcome, exc, retries, caller, events >>
    /\ UNCHANGED chatVars
    /\ UNCHANGED mineVars
    /\ UNCHANGED succeeded
    /\ UNCHANGED section_prompts
    /\ UNCHANGED pegasusVars
    /\ UNCHANGED uiVars

\* variant: the titles are taken from the end of the list
SectionTitleReversed(i) == ReportSections[NumSections - i]
\* for idx, (title, instruction) in enumerate(report_sections)
SectionTitle(i) == ReportSections[i + 1]

\* section_prompt: the title and, after "RESEARCH DATA:", the context
SectionPrompt(title) == [title |-> title, data |-> context]

\* one section: log, self.client.chat directly, emit the section and the
\* progress
SectionOk ==
    /\ pc = "synth"
    /\ sec < NumSections
    /\ chatLog' = << ChatCall("section", TRUE) >>
    /\ events' = events \o
          << Signal("section", SectionTitle(sec),
                    SectionText(SectionTitle(sec))),
             Signal("progress", SectionProgress(sec + 1, NumSections), None) >>
    /\ last_sig' = "progress"
    /\ sec' = sec + 1
    /\ UNCHANGED << pc, phase, outcome, exc, model, retries, caller, attempt,
                    last_error, ret, engaged, switches, context >>
    /\ UNCHANGED mineVars
    /\ UNCHANGED succeeded
    /\ section_prompts' = Append(section_prompts, SectionPrompt(SectionTitle(sec)))
    /\ UNCHANGED pegasusVars
    /\ UNCHANGED uiVars

\* self.client.chat raises in the synthesis loop: nothing catches it there
SectionFail ==
    /\ pc = "synth"
    /\ sec < NumSections
    /\ chatLog' = << ChatCall("section", FALSE) >>
    /\ exc' = [kind |-> "SectionChat", id |-> 1]
    /\ last_sig' = "log"
    /\ pc' = "raised"
    /\ UNCHANGED << phase, outcome, model, retries, caller, attempt,
                    last_error, ret, engaged, switches, context, sec, events >>
    /\ UNCHANGED mineVars
    /\ UNCHANGED succeeded
    /\ section_prompts' = Append(section_prompts, SectionPrompt(SectionTitle(sec)))
    /\ UNCHANGED pegasusVars
    /\ UNCHANGED uiVars

\* all sections done: finished_sig, then the SUCCESS log line
Finish ==
    /\ pc = "synth"
    /\ sec >= NumSections
    /\ events' = Append(events, Signal("finished", None, None))
    /\ last_sig' = "log"
    /\ outcome' = "DONE"
    /\ pc' = "ended"
    /\ UNCHANGED << phase, exc, retries, caller, context, sec >>
    /\ UNCHANGED chatVars
    /\ UNCHANGED mineVars
    /\ UNCHANGED succeeded
    /\ UNCHANGED section_prompts
    /\ UNCHANGED pegasusVars
    /\ UNCHANGED uiVars

\* except Exception as exc: log the error; run returns
HandleException ==
    /\ pc = "raised"
    /\ last_sig' = "log"
    /\ outcome' = "FAILED"
    /\ pc' = "ended"
    /\ UNCHANGED << phase, exc, retries, caller, context, sec, events >>
    /\ UNCHANGED chatVars
    /\ UNCHANGED mineVars
    /\ UNCHANGED succeeded
    /\ UNCHANGED section_prompts
    /\ UNCHANGED pegasusVars
    /\ UNCHANGED uiVars

(* ---------------- specification of a run ---------------- *)
\* the agent after __init__, run called
Init ==
    /\ pc = "start"
    /\ phase = "init"
    /\ outcome = "RUNNING"
    /\ exc = NoException
    /\ model = PRIMARY_MODEL
    /\ retries = DefaultRetries
    /\ caller = None
    /\ attempt = 0
    /\ last_error = 0
    /\ chatLog = << >>
    /\ ret = NoResponse
    /\ engaged = FALSE
    /\ switches = 0
    /\ response = None
    /\ queries = << >>
    /\ idx = 0
    /\ results = << >>
    /\ url = Unbound
    /\ raw_texts = << >>
    /\ vector_summaries = << >>
    /\ fetchLog = << >>
    /\ succeeded = << >>
    /\ section_prompts = << >>
    /\ input_subject = ""
    /\ btn_run = TRUE
    /\ threads = << >>
    /\ gui_queue = << >>
    /\ max_retries = DefaultMaxRetries
    /\ waits = << >>
    /\ sub_prompt = UnboundPrompt
    /\ intel_txt = Unbound
    /\ context = MasterContext(<< >>)
    /\ sec = 0
    /\ events = << >>
    /\ last_sig = None

Next ==
    \/ Start
    \/ ChatAttemptOk
    \/ ChatAttemptFail
    \/ ChatFallbackOk
    \/ ChatFallbackFail
    \/ ChatRaise
    \/ Parse
    \/ MineVector
    \/ SearchEmpty
    \/ SearchReturns
    \/ FetchUnbound
    \/ FetchSkipped
    \/ FetchExtracted
    \/ SummarizeCall
    \/ SummarizeSkip
    \/ Summarized
    \/ BeginSynthesis
    \/ SectionOk
    \/ SectionFail
    \/ Finish
    \/ HandleException

Spec == Init /\ [][Next]_vars

\* run is executed by one thread that keeps running until run returns: a
\* step that can be taken is eventually taken
SpecLive == Init /\ [][Next]_vars /\ WF_vars(Next)

(* ---------------- specification of safe_chat on its own ---------------- *)
\* safe_chat entered with retries = k, for either request of run and either
\* value of self.model
InitSafeChat ==
    /\ pc = "chat"
    /\ outcome = "RUNNING"
    /\ exc = NoException
    /\ retries \in 0..MaxRetries
    /\ model \in {PRIMARY_MODEL, FALLBACK_MODEL}
    /\ engaged = (model = FALLBACK_MODEL)
    /\ switches = IF engaged THEN 1 ELSE 0
    /\ caller \in {"vectors", "summary"}
    /\ attempt = 0
    /\ last_error = 0
    /\ chatLog = << >>
    /\ ret = NoResponse
    /\ phase = IF caller = "vectors" THEN "vectors" ELSE "mining"
    /\ response = IF caller = "vectors" THEN None ELSE "bad-literal"
    /\ queries = IF caller = "vectors" THEN << >> ELSE DefaultQueries
    /\ idx = 0
    /\ results = IF caller = "vectors" THEN << >> ELSE << UrlOf(1, 1) >>
    /\ url = IF caller = "vectors" THEN Unbound ELSE UrlOf(1, 1)
    /\ raw_texts =
          IF caller = "vectors" THEN << >>
          ELSE << Truncate([url |-> UrlOf(1, 1),
                            extracted |-> MAX_CHARS_PER_SOURCE,
                            len |-> MAX_CHARS_PER_SOURCE],
                           MAX_CHARS_PER_SOURCE) >>
    /\ vector_summaries = << >>
    /\ fetchLog =
          IF caller = "vectors" THEN << >> ELSE << [q |-> 1, url |-> UrlOf(1, 1)] >>
    /\ succeeded = << >>
    /\ section_prompts = << >>
    /\ input_subject = ""
    /\ btn_run = TRUE
    /\ threads = << >>
    /\ gui_queue = << >>
    /\ max_retries = DefaultMaxRetries
    /\ waits = << >>
    /\ sub_prompt = UnboundPrompt
    /\ intel_txt = Unbound
    /\ context = MasterContext(<< >>)
    /\ sec = 0
    /\ events =
          IF caller = "vectors" THEN << >>
          ELSE << Signal("query", DefaultQueries[1], None),
                  Signal("url", DefaultQueries[1], UrlOf(1, 1)) >>
    /\ last_sig = IF caller = "vectors" THEN "log" ELSE "url"

NextSafeChat ==
    \/ ChatAttemptOk
    \/ ChatAttemptFail
    \/ ChatFallbackOk
    \/ ChatFallbackFail
    \/ ChatRaise

SpecSafeChat == InitSafeChat /\ [][NextSafeChat]_vars

(***************************************************************************)
(* Properties                                                              *)
(***************************************************************************)
\* safe_chat has returned to run / has let an exception out
Returned == pc \in {"parse", "summarized"}
Raised == pc = "raised" /\ exc.kind = "LLMExhausted"

\* C1: safe_chat called with retries = k while self.model is the primary
\* (and the fallback differs from it): when it raises, the log of the
\* request holds exactly k+1 failed calls with the primary identity followed
\* by exactly one failed call with the fallback identity.
C1_RetryExhaustion ==
    (Raised /\ chatLog # << >> /\ ~chatLog[1].engaged) =>
        /\ PRIMARY_MODEL # FALLBACK_MODEL
        /\ Len(chatLog) = retries + 2
        /\ \A i \in 1..(retries + 1) :
              chatLog[i].model = PRIMARY_MODEL /\ ~chatLog[i].ok
        /\ chatLog[retries + 2].model = FALLBACK_MODEL
        /\ ~chatLog[retries + 2].ok

\* C1 witness: the default retries = 2, three primary calls and the fallback
\* call have failed and safe_chat raises
C1_Witness ==
    /\ Raised
    /\ retries = DefaultRetries
    /\ Len(chatLog) = DefaultRetries + 2
    /\ chatLog[1].model = PRIMARY_MODEL
    /\ chatLog[Len(chatLog)].model = FALLBACK_MODEL

\* C2: fallback stickiness. Once safe_chat has switched self.model to the
\* fallback, self.model stays the fallback, every client.chat call made
\* afterwards (by safe_chat for any request, or by the synthesis loop) is
\* handed the fallback identity, and self.model changes at most once.
C2_FallbackSticky ==
    [][ /\ engaged => (engaged' /\ model' = FALLBACK_MODEL)
        /\ model' # model =>
              (model = PRIMARY_MODEL /\ model' = FALLBACK_MODEL /\ switches = 0)
        /\ switches' <= 1
        /\ \A i \in DOMAIN chatLog' :
              chatLog'[i].engaged => chatLog'[i].model = FALLBACK_MODEL ]_vars

\* C2 witness: the switch happened during mining or vector generation and a
\* later section call of the synthesis loop is made with the fallback
C2_Witness ==
    /\ pc = "synth"
    /\ engaged
    /\ chatLog # << >>
    /\ chatLog[1].stage = "section"
    /\ chatLog[1].engaged
    /\ chatLog[1].model = FALLBACK_MODEL

\* C3: safe_chat raises only after all retries + 1 attempts on the current
\* model have failed and, if that model was not the fallback, the one
\* fallback call has failed too; the exception raised is that of the last
\* failing call. When a call succeeds, its response is what safe_chat
\* returns and it is the last call of the request.
C3_FailsOnlyWhenExhausted ==
    /\ pc = "chat" => \A i \in DOMAIN chatLog : ~chatLog[i].ok
    /\ Raised =>
          /\ chatLog # << >>
          /\ \A i \in DOMAIN chatLog : ~chatLog[i].ok
          /\ Len(chatLog) =
                (retries + 1) + (IF chatLog[1].model = FALLBACK_MODEL THEN 0 ELSE 1)
          /\ exc.id = Len(chatLog)
    /\ Returned =>
          /\ chatLog # << >>
          /\ chatLog[Len(chatLog)].ok
          /\ \A i \in 1..(Len(chatLog) - 1) : ~chatLog[i].ok
          /\ ret.by = Len(chatLog)

\* C3 witness: self.model was the fallback already, several attempts have
\* failed and safe_chat raises last_error
C3_Witness ==
    /\ Raised
    /\ retries >= 1
    /\ chatLog[1].model = FALLBACK_MODEL
    /\ Len(chatLog) = retries + 1
    /\ exc.id = retries + 1

\* C4: a run that reaches the synthesis stage has emitted one
\* master_section_sig per configured section when it ends, whatever section
\* calls failed.
C4_SectionCompleteness ==
    (pc = "ended" /\ phase = "synthesis") =>
        Len(Signals(events, "section")) = NumSections

\* C5: every run has emitted finished_sig exactly once when it ends, in
\* DONE and in FAILED.
C5_FinishedExactlyOnce ==
    pc = "ended" => Len(Signals(events, "finished")) = 1

\* C6: once the search of the current query has raised or returned nothing,
\* no page is fetched for the query, no summarization is started for it and
\* the run does not abort: the vector ends with no text, at any position of
\* the query.
C6_EmptySearchIsEmptyVector ==
    (phase = "mining" /\ results = << >>
       /\ pc \in {"fetch", "summarize", "chat", "summarized", "raised", "ended"}) =>
        /\ pc \in {"fetch", "summarize"}
        /\ raw_texts = << >>
        /\ \A i \in DOMAIN fetchLog : fetchLog[i].q # idx + 1

\* C7: a summarization request that fails after all retry and fallback
\* paths does not end the run (mining goes on and the run reaches the
\* synthesis stage), and every entry of vector_summaries is the response of
\* a summarization of its query.
C7_SummaryFailureContained ==
    /\ (pc \in {"raised", "ended"} /\ caller = "summary" /\ exc.kind = "LLMExhausted")
          => phase = "synthesis"
    /\ \A i \in DOMAIN vector_summaries :
          vector_summaries[i].intel = Intel(vector_summaries[i].query)

\* C8: a run ends in FAILED only through a failure of an LLM call; a failed
\* search, fetch, extraction or parse never takes run to its outer handler.
C8_OnlyLLMFailureFails ==
    outcome = "FAILED" => exc.kind \in {"LLMExhausted", "SectionChat"}

\* C9 (as stated): a vector response without a bracketed list yields the
\* two-element default list.
C9_NoBracketYieldsDefault ==
    response = "no-bracket" =>
        /\ queries = << Target \o " market analysis", Target \o " competitors" >>
        /\ Len(queries) >= 2

\* C9 (amended): a vector response without a bracketed list does not make
\* query generation raise and yields the one-element list [target]; the
\* mining loop is entered with it.
C9_NoBracketYieldsTarget ==
    response = "no-bracket" =>
        /\ queries = << Target >>
        /\ Len(queries) = 1
        /\ phase \in {"mining", "synthesis"}
        /\ exc # NoException => Len(Signals(events, "query")) >= 1
        /\ Signals(events, "query") \in {<< >>, << Signal("query", Target, None) >>}

\* C9 witness: the response had no bracketed list and the target itself is
\* being mined
C9_Witness ==
    /\ response = "no-bracket"
    /\ pc = "search"
    /\ idx = 0
    /\ queries = << Target >>

\* C10: a bracketed substring that does not parse yields exactly
\* ["{target} market analysis", "{target} competitors"] without raising, a
\* list that parses is used as it is whatever its length, and the queries
\* the mining loop announces are the queries of that list, in order.
C10_ParseFallback ==
    /\ response = "bad-literal" =>
          queries = << Target \o " market analysis", Target \o " competitors" >>
    /\ \A n \in 0..MaxQueries :
          response = ListLiteral(n) =>
              /\ Len(queries) = n
              /\ \A i \in 1..n : queries[i] = "q" \o ToString(i)
    /\ response # None =>
          LET announced == Signals(events, "query")
          IN  /\ Len(announced) <= Len(queries)
              /\ \A i \in DOMAIN announced : announced[i].a = queries[i]
              /\ pc \in {"search", "fetch", "summarize", "chat", "summarized"}
                    => Len(announced) = idx + 1

\* C10 witness: the literal did not parse and the second default query is
\* being mined
C10_Witness ==
    /\ response = "bad-literal"
    /\ idx = 1
    /\ pc = "fetch"
    /\ Signals(events, "query") =
          << Signal("query", Target \o " market analysis", None),
             Signal("query", Target \o " competitors", None) >>

\* C11: when no search of the run has produced a result with a link (url was
\* never bound), a run with queries stops only in the synthesis stage, with
\* vector_summaries empty and the aggregated context empty, and a completed
\* run has emitted one section per configured section.
C11_EmptyMiningStillSynthesizes ==
    (queries # << >> /\ url = Unbound /\ pc \in {"raised", "ended"}) =>
        /\ phase = "synthesis"
        /\ vector_summaries = << >>
        /\ context.entries = << >>
        /\ context.len = 0
        /\ outcome = "DONE" => Len(Signals(events, "section")) = NumSections

\* the fetches recorded for a link
FetchesOf(u) == { j \in DOMAIN fetchLog : fetchLog[j].url = u }

\* C12: once the mining of a query is over, exactly one fetch has been
\* attempted for every link announced by a url signal so far.
C12_EveryUrlFetchedOnce ==
    pc = "mine" =>
        \A i \in DOMAIN Signals(events, "url") :
            Cardinality(FetchesOf(Signals(events, "url")[i].b)) = 1

\* C13: the queries labelling the entries of vector_summaries are exactly
\* the generated queries whose summarization returned, one entry per such
\* position and in the order of generation.
C13_OrderPreserved ==
    /\ \A i, j \in DOMAIN succeeded : i < j => succeeded[i] < succeeded[j]
    /\ \A i \in DOMAIN succeeded : succeeded[i] \in DOMAIN queries
    /\ pc # "summarized" =>
          /\ Len(vector_summaries) = Len(succeeded)
          /\ \A i \in DOMAIN vector_summaries :
                vector_summaries[i].query = queries[succeeded[i]]

\* C13 witness: mining is over and both of two queries were summarized
C13_Witness ==
    /\ phase = "synthesis"
    /\ Len(queries) = 2
    /\ succeeded = << 1, 2 >>
    /\ Len(vector_summaries) = 2

\* C14: a section-generation call is given up only after the wrapper's
\* attempts: when a section call has failed the run, retries + 1 attempts
\* were made for it and the last attempt was on the fallback model.
C14_SectionCallsWrapped ==
    (pc = "raised" /\ exc.kind = "SectionChat") =>
        /\ Len(chatLog) >= retries + 1
        /\ chatLog[Len(chatLog)].model = FALLBACK_MODEL

\* ---------------------------------------------------------------------------
\* run_agent_sync: the slot collect_section is connected to
\* master_section_sig and run() is called directly, so the slot runs at every
\* emission of the signal, in emission order

\* variant: the new block is put in front of the collected ones
CollectSectionInFront(report, title, content) ==
    "## " \o title \o "\n\n" \o content \o "\n\n" \o report
\* report_sections.append(f"## {title}\n\n{content}\n\n"), joined with ""
CollectSection(report, title, content) ==
    report \o "## " \o title \o "\n\n" \o content \o "\n\n"

RECURSIVE Collected(_)
Collected(sigs) ==
    IF sigs = << >> THEN ""
    ELSE CollectSection(Collected(SubSeq(sigs, 1, Len(sigs) - 1)),
                        sigs[Len(sigs)].a, sigs[Len(sigs)].b)

\* return "".join(report_sections), once run() has returned
RunAgentSync == Collected(Signals(events, "section"))

\* the document of the first k configured sections, in configured order
RECURSIVE Document(_)
Document(k) ==
    IF k = 0 THEN ""
    ELSE Document(k - 1) \o "## " \o ReportSections[k] \o "\n\n"
            \o SectionText(ReportSections[k]) \o "\n\n"

\* C15 (as stated): whatever the search, fetch and chat calls did, the
\* document returned by run_agent_sync has one block for every configured
\* section, in configured order.
C15_ReportHasEverySection ==
    pc = "ended" => RunAgentSync = Document(NumSections)

\* C15 (amended): the document returned by run_agent_sync is the
\* concatenation, in configured order, of the blocks of the sections the
\* run emitted: all configured sections exactly when the run ended in DONE,
\* a proper prefix of them (possibly none) when it ended in FAILED.
C15_ReportIsEmittedPrefix ==
    pc = "ended" =>
        LET emitted == Len(Signals(events, "section"))
        IN  /\ emitted \in 0..NumSections
            /\ RunAgentSync = Document(emitted)
            /\ outcome = "DONE" <=> emitted = NumSections
            /\ outcome = "FAILED" <=> emitted < NumSections

\* C15 witness: a run that ended after two sections returned their two
\* blocks
C15_Witness ==
    /\ pc = "ended"
    /\ outcome = "FAILED"
    /\ Len(Signals(events, "section")) = 2
    /\ RunAgentSync = Document(2)

\* the titles of the section signals emitted so far
EmittedTitles ==
    LET sigs == Signals(events, "section")
    IN  [i \in DOMAIN sigs |-> sigs[i].a]

\* C16: at any point of a run the titles of the section signals emitted so
\* far are a prefix of the configured titles, so the sections come in
\* definition order and no title is emitted twice; a step never removes or
\* changes a section already emitted.
C16_SectionsInOrder ==
    LET titles == EmittedTitles
    IN  /\ Len(titles) <= NumSections
        /\ titles = SubSeq(ReportSections, 1, Len(titles))
        /\ \A i, j \in DOMAIN titles : i # j => titles[i] # titles[j]
        /\ Len(titles) = sec

\* C16 witness: a later section failed after three were emitted
C16_Witness ==
    /\ outcome = "FAILED"
    /\ exc.kind = "SectionChat"
    /\ EmittedTitles = SubSeq(ReportSections, 1, 3)

\* the positions of the progress signals in the emitted events
ProgressAt == { k \in DOMAIN events : events[k].sig = "progress" }

\* a section signal was emitted before position k
AfterSection(k) == \E h \in 1..(k - 1) : events[h].sig = "section"

\* C17: the progress values of a run never decrease and all lie in 0..100;
\* the values emitted during mining (before any section) are at most 50 and
\* the values emitted during synthesis are greater than 50.
C17_ProgressMonotone ==
    LET at == ProgressAt
    IN  /\ \A k \in at : events[k].a \in 0..100
        /\ \A h, k \in at : h < k => events[h].a <= events[k].a
        /\ \A k \in at :
              IF AfterSection(k) THEN events[k].a > 50 ELSE events[k].a <= 50
        /\ phase # "synthesis" => \A k \in at : events[k].a <= 50

\* C17 witness: a completed run over two queries that both emitted progress
C17_Witness ==
    /\ outcome = "DONE"
    /\ Len(queries) = 2
    /\ Cardinality(ProgressAt) = 2 + NumSections
    /\ \E k \in ProgressAt : events[k].a = 100

\* C18: during mining, when i of the N query vectors have been processed,
\* exactly i progress signals have been emitted, the h-th with the value
\* floor(50 * h / N), whether or not a vector yielded text or a summary.
C18_OneProgressPerVector ==
    (phase = "mining" /\ pc = "mine") =>
        /\ Len(Signals(events, "progress")) = idx
        /\ \A h \in DOMAIN Signals(events, "progress") :
              Signals(events, "progress")[h].a = (50 * h) \div Len(queries)

\* one pass over the events from position k on, n queries having been
\* announced and inSynthesis telling whether a section was emitted: a query
\* signal announces the next query of the list, a url or vector_intel signal
\* carries the query announced last, and none of them follows a section
RECURSIVE InQueryBlocks(_, _, _)
InQueryBlocks(k, n, inSynthesis) ==
    IF k > Len(events) THEN TRUE
    ELSE CASE events[k].sig = "query" ->
                /\ ~inSynthesis
                /\ n + 1 \in DOMAIN queries
                /\ events[k].a = queries[n + 1]
                /\ InQueryBlocks(k + 1, n + 1, inSynthesis)
           [] events[k].sig \in {"url", "vector_intel"} ->
                /\ ~inSynthesis
                /\ n \in DOMAIN queries
                /\ events[k].a = queries[n]
                /\ InQueryBlocks(k + 1, n, inSynthesis)
           [] events[k].sig = "section" -> InQueryBlocks(k + 1, n, TRUE)
           [] OTHER -> InQueryBlocks(k + 1, n, inSynthesis)

\* C19: the queries are mined one after the other in generation order: the
\* query signals are the first queries of the list in order, exactly one
\* query is being mined between its signal and the end of its iteration,
\* every url and vector_intel signal and every fetch belongs to the query
\* announced last, and no section is generated before the mining of the
\* last query has ended.
C19_SequentialMining ==
    LET announced == Len(Signals(events, "query"))
    IN
    /\ InQueryBlocks(1, 0, FALSE)
    /\ phase = "mining" =>
          announced = IF pc = "mine" THEN idx ELSE idx + 1
    /\ \A i, j \in DOMAIN fetchLog : i < j => fetchLog[i].q < fetchLog[j].q
    /\ \A i \in DOMAIN fetchLog : fetchLog[i].q <= announced
    /\ phase = "synthesis" =>
          /\ idx = Len(queries)
          /\ announced = Len(queries)
    /\ pc = "chat" => \A i \in DOMAIN chatLog : chatLog[i].stage = caller

\* C19 witness: the second query is being searched after the first one was
\* mined and summarized
C19_Witness ==
    /\ pc = "search"
    /\ idx = 1
    /\ Len(vector_summaries) = 1
    /\ Len(fetchLog) = 1
    /\ Len(Signals(events, "query")) = 2

\* C20: when the parsed query list is empty the mining loop has no
\* iteration (no query, url, vector_intel or progress signal of mining, no
\* fetch, no summary), synthesis runs over the empty context, and the run
\* can stop only in the synthesis stage: a failure is a failure of a section
\* call and a completed run has emitted every section.
C20_EmptyListSkipsMining ==
    response = ListLiteral(0) =>
        /\ queries = << >>
        /\ Signals(events, "query") = << >>
        /\ Signals(events, "url") = << >>
        /\ Signals(events, "vector_intel") = << >>
        /\ \A k \in ProgressAt : AfterSection(k)
        /\ fetchLog = << >>
        /\ vector_summaries = << >>
        /\ phase \in {"mining", "synthesis"}
        /\ phase = "synthesis" => (context.entries = << >> /\ context.len = 0)
        /\ pc \in {"raised", "ended"} =>
              (phase = "synthesis" /\ exc.kind \in {None, "SectionChat"})
        /\ outcome = "DONE" => Len(Signals(events, "section")) = NumSections

\* C20 witness: a run over the empty list completed with all its sections
C20_Witness ==
    /\ response = ListLiteral(0)
    /\ outcome = "DONE"
    /\ Len(Signals(events, "section")) = NumSections
    /\ context.len = 0

\* C21: every text accumulated for a summarization prompt is the prefix of
\* its extracted text of length min(length, MAX_CHARS_PER_SOURCE): a longer
\* text is stored as exactly its first MAX_CHARS_PER_SOURCE characters, a
\* shorter one unchanged, each source on its own.
C21_TruncationExact ==
    \A i \in DOMAIN raw_texts :
        /\ raw_texts[i].len = Min(raw_texts[i].extracted, MAX_CHARS_PER_SOURCE)
        /\ raw_texts[i].extracted > MAX_CHARS_PER_SOURCE =>
              raw_texts[i].len = MAX_CHARS_PER_SOURCE
        /\ raw_texts[i].extracted <= MAX_CHARS_PER_SOURCE =>
              raw_texts[i].len = raw_texts[i].extracted
        /\ raw_texts[i].url = fetchLog[Len(fetchLog)].url

\* C21 witness: a text longer than the cap is about to be summarized
C21_Witness ==
    /\ pc = "summarize"
    /\ raw_texts # << >>
    /\ raw_texts[1].extracted > MAX_CHARS_PER_SOURCE
    /\ raw_texts[1].len = MAX_CHARS_PER_SOURCE

\* C22: the research data of every section prompt of a run is one and the
\* same value, computed when mining is over: the entries of
\* vector_summaries in mining order, joined and cut to at most
\* MAX_MASTER_CONTEXT_CHARS characters; it does not change between sections.
C22_ContextSharedAndCapped ==
    /\ context.len <= MAX_MASTER_CONTEXT_CHARS
    /\ phase = "synthesis" =>
          /\ context.entries = vector_summaries
          /\ context.len = Min(JoinLen(vector_summaries), MAX_MASTER_CONTEXT_CHARS)
    /\ phase # "synthesis" => section_prompts = << >>
    /\ \A i \in DOMAIN section_prompts :
          /\ section_prompts[i].title = ReportSections[i]
          /\ section_prompts[i].data = context
          /\ section_prompts[i].data.len <= MAX_MASTER_CONTEXT_CHARS

\* C22 witness: the second section was prompted with the same cut context of
\* two summaries as the first
C22_Witness ==
    /\ Len(section_prompts) >= 2
    /\ Len(context.entries) = 2
    /\ JoinLen(vector_summaries) > MAX_MASTER_CONTEXT_CHARS
    /\ context.len = MAX_MASTER_CONTEXT_CHARS
    /\ section_prompts[1].data = section_prompts[2].data

(* ======================================================================= *)
(* pegasus.py: RecursiveSectionalAgent                                      *)
(* ======================================================================= *)
\* the state of run that chat_with_retry does not touch
pegasusRun ==
    << phase, outcome, response, queries, idx, results, raw_texts,
       vector_summaries, context, sec, events, sub_prompt, intel_txt >>

(* ---------------- chat_with_retry ---------------- *)
\* variant: the wait grows from the attempt index
WaitTimeFromZero(a) == a * 5
\* wait_time = (attempt + 1) * 5
WaitTime(a) == (a + 1) * 5

\* self.model = 'gpt-oss:120b'
PEGASUS_MODEL == "gpt-oss:120b"

\* self.client.chat(self.model, ...)
PegasusChatCall(ok) == [stage |-> caller, model |-> model, ok |-> ok]

PegasusReportSections ==
    << "Executive Summary", "SWOT Analysis", "PESTLE Analysis",
       "Porter's Five Forces", "Moat & Defensibility", "Competitive Landscape",
       "Strategic Outlook" >>

PegasusNumSections == Len(PegasusReportSections)

\* the contents the LLM can answer a request with: a vector response that
\* parses, the summary of the texts of the prompt, a mindmap, the text of
\* the section, chart data
PegasusResponses(stage) ==
    CASE stage = "vectors" -> VectorResponses \ {"bad-literal"}
      [] stage = "summary" -> { Intel(sub_prompt.q) }
      [] stage = "mindmap" -> { "mindmap" }
      [] stage = "section" -> { SectionText(PegasusReportSections[sec + 1]) }
      [] stage = "chart" -> { "chart" }

\* where run goes on when chat_with_retry returns
ChatWithRetryReturnTo(stage) ==
    CASE stage = "vectors" -> "p_parse"
      [] stage = "summary" -> "p_intel"
      [] stage = "mindmap" -> "p_mindmap"
      [] stage = "section" -> "p_section"
      [] stage = "chart" -> "p_chart"

\* the handler of run that catches what chat_with_retry raises
ChatWithRetryHandler(stage) ==
    CASE stage = "vectors" -> "p_raised"
      [] stage \in {"summary", "mindmap"} -> "p_vector_except"
      [] stage = "section" -> "p_section_except"
      [] stage = "chart" -> "p_chart_except"

\* run calls self.chat_with_retry(prompt): max_retries takes its default
EnterChatWithRetry(stage) ==
    /\ caller' = stage
    /\ max_retries' = DefaultMaxRetries
    /\ attempt' = 0
    /\ chatLog' = << >>
    /\ waits' = << >>
    /\ pc' = "cwr"

\* an attempt of the loop returns the response
ChatWithRetryOk ==
    /\ pc = "cwr"
    /\ attempt < max_retries
    /\ chatLog' = Append(chatLog, PegasusChatCall(TRUE))
    /\ \E c \in PegasusResponses(caller) :
          ret' = [content |-> c, by |-> attempt + 1]
    /\ last_sig' = "log"
    /\ pc' = ChatWithRetryReturnTo(caller)
    /\ UNCHANGED << exc, model, caller, attempt, max_retries, waits >>
    /\ UNCHANGED pegasusRun
    /\ UNCHANGED agentVars
    /\ UNCHANGED uiVars

\* an attempt other than the last fails: log, sleep, next attempt
ChatWithRetryFail ==
    /\ pc = "cwr"
    /\ attempt + 1 < max_retries
    /\ chatLog' = Append(chatLog, PegasusChatCall(FALSE))
    /\ waits' = Append(waits, WaitTime(attempt))
    /\ attempt' = attempt + 1
    /\ last_sig' = "log"
    /\ UNCHANGED << pc, exc, model, caller, ret, max_retries >>
    /\ UNCHANGED pegasusRun
    /\ UNCHANGED agentVars
    /\ UNCHANGED uiVars

\* the last attempt fails: log, raise Exception("Failed after ...")
ChatWithRetryRaise ==
    /\ pc = "cwr"
    /\ attempt + 1 = max_retries
    /\ chatLog' = Append(chatLog, PegasusChatCall(FALSE))
    /\ exc' = [kind |-> "FailedAfter", id |-> max_retries]
    /\ last_sig' = "log"
    /\ pc' = ChatWithRetryHandler(caller)
    /\ UNCHANGED << model, caller, attempt, ret, max_retries, waits >>
    /\ UNCHANGED pegasusRun
    /\ UNCHANGED agentVars
    /\ UNCHANGED uiVars

\* max_retries = 0: range(0) is empty, the function falls off its end and
\* returns None
ChatWithRetryNone ==
    /\ pc = "cwr"
    /\ max_retries = 0
    /\ ret' = NoResponse
    /\ pc' = ChatWithRetryReturnTo(caller)
    /\ UNCHANGED << exc, model, caller, attempt, chatLog, max_retries, waits,
                    last_sig >>
    /\ UNCHANGED pegasusRun
    /\ UNCHANGED agentVars
    /\ UNCHANGED uiVars

(* ---------------- run (pegasus.py) ---------------- *)
\* run has taken what chat_with_retry returned or raised
LeaveChatWithRetry ==
    /\ attempt' = 0
    /\ chatLog' = << >>
    /\ waits' = << >>
    /\ ret' = NoResponse

\* queries = ast.literal_eval(match.group(0)) if match else [self.target]
\* (the responses explored here are the ones that parse)
PegasusParseQueries(content) ==
    IF content = "no-bracket" THEN TargetOnly ELSE ListOf(content)

\* data[:2000]
PegasusMaxChars == 2000
\* the length of the texts trafilatura.extract returns
PegasusExtractLens == {PegasusMaxChars + 3000}

\* int(((idx+1)/len(queries))*50)
PegasusMiningProgress(i, n) == (50 * i) \div n
\* 50 + int(((i+1)/len(report_sections))*40)
PegasusSectionProgress(i, n) == 50 + (40 * i) \div n

\* context_for_master = "\n\n".join(self.vector_summaries), cut where used
PegasusContext(s) == [entries |-> s, len |-> JoinLen(s)]

\* log, phase 1: the vector prompt goes to chat_with_retry
PegasusStart ==
    /\ pc = "p_start"
    /\ phase' = "vectors"
    /\ last_sig' = "log"
    /\ EnterChatWithRetry("vectors")
    /\ UNCHANGED << outcome, exc, model, ret, response, queries, idx, results,
                    raw_texts, vector_summaries, context, sec, events,
                    sub_prompt, intel_txt >>
    /\ UNCHANGED agentVars
    /\ UNCHANGED uiVars

\* the response is parsed into the list of queries
PegasusParse ==
    /\ pc = "p_parse"
    /\ response' = ret.content
    /\ queries' = PegasusParseQueries(ret.content)
    /\ idx' = 0
    /\ phase' = "mining"
    /\ pc' = "p_mine"
    /\ LeaveChatWithRetry
    /\ UNCHANGED << outcome, exc, model, caller, results, raw_texts,
                    vector_summaries, context, sec, events, last_sig,
                    max_retries, sub_prompt, intel_txt >>
    /\ UNCHANGED agentVars
    /\ UNCHANGED uiVars

\* loop head: emit the query, log, raw_texts = []
PegasusMineVector ==
    /\ pc = "p_mine"
    /\ idx < Len(queries)
    /\ events' = Append(events, Signal("query", queries[idx + 1], None))
    /\ last_sig' = "log"
    /\ raw_texts' = << >>
    /\ pc' = "p_search"
    /\ UNCHANGED << phase, outcome, exc, model, caller, attempt, chatLog, ret,
                    response, queries, idx, results, vector_summaries, context,
                    sec >>
    /\ UNCHANGED pegasusVars
    /\ UNCHANGED agentVars
    /\ UNCHANGED uiVars

\* DDGS().text raises (caught at line 153, logged) or returns nothing
PegasusSearchFails ==
    /\ pc = "p_search"
    /\ results' = << >>
    /\ \E raised \in BOOLEAN :
          last_sig' = IF raised THEN "log" ELSE last_sig
    /\ pc' = "p_links"
    /\ UNCHANGED << phase, outcome, exc, model, caller, attempt, chatLog, ret,
                    response, queries, idx, raw_texts, vector_summaries,
                    context, sec, events >>
    /\ UNCHANGED pegasusVars
    /\ UNCHANGED agentVars
    /\ UNCHANGED uiVars

\* DDGS().text returns results, each with its href
PegasusSearchReturns ==
    /\ pc = "p_search"
    /\ \E n \in 1..MaxResults :
          results' = [j \in 1..n |-> UrlOf(idx + 1, j)]
    /\ pc' = "p_links"
    /\ UNCHANGED << phase, outcome, exc, model, caller, attempt, chatLog, ret,
                    response, queries, idx, raw_texts, vector_summaries,
                    context, sec, events, last_sig >>
    /\ UNCHANGED pegasusVars
    /\ UNCHANGED agentVars
    /\ UNCHANGED uiVars

\* one result: emit the link, fetch and extract it (a text is cut and
\* appended; a failure is passed over), collect its images
PegasusLink ==
    /\ pc = "p_links"
    /\ results # << >>
    /\ events' = Append(events, Signal("url", queries[idx + 1], Head(results)))
    /\ \/ raw_texts' = raw_texts
       \/ \E n \in PegasusExtractLens :
             raw_texts' = Append(raw_texts,
                 Truncate([url |-> Head(results), extracted |-> n, len |-> n],
                          PegasusMaxChars))
    /\ \E images \in BOOLEAN :
          last_sig' = IF images THEN "image" ELSE "url"
    /\ results' = Tail(results)
    /\ UNCHANGED << pc, phase, outcome, exc, model, caller, attempt, chatLog,
                    ret, response, queries, idx, vector_summaries, context,
                    sec >>
    /\ UNCHANGED pegasusVars
    /\ UNCHANGED agentVars
    /\ UNCHANGED uiVars

\* the vector is over: the progress signal, next query
PegasusNextVector ==
    /\ events' = Append(events,
          Signal("progress", PegasusMiningProgress(idx + 1, Len(queries)), None))
    /\ last_sig' = "progress"
    /\ idx' = idx + 1
    /\ pc' = "p_mine"

\* no text, and sub_prompt was never assigned: reading it in the try block
\* raises UnboundLocalError, which the handler at line 173 logs
PegasusSummarizeUnbound ==
    /\ pc = "p_links"
    /\ results = << >>
    /\ raw_texts = << >>
    /\ sub_prompt = UnboundPrompt
    /\ PegasusNextVector
    /\ UNCHANGED << phase, outcome, exc, model, caller, attempt, chatLog, ret,
                    response, queries, results, raw_texts, vector_summaries,
                    context, sec >>
    /\ UNCHANGED pegasusVars
    /\ UNCHANGED agentVars
    /\ UNCHANGED uiVars

\* if raw_texts: sub_prompt = ...; then, in either case, the try block
\* sends sub_prompt to chat_with_retry
PegasusSummarizeCall ==
    /\ pc = "p_links"
    /\ results = << >>
    /\ raw_texts # << >> \/ sub_prompt # UnboundPrompt
    /\ sub_prompt' = IF raw_texts # << >>
                     THEN [q |-> queries[idx + 1], texts |-> raw_texts]
                     ELSE sub_prompt
    /\ EnterChatWithRetry("summary")
    /\ UNCHANGED << phase, outcome, exc, model, ret, response, queries, idx,
                    results, raw_texts, vector_summaries, context, sec, events,
                    last_sig, intel_txt >>
    /\ UNCHANGED agentVars
    /\ UNCHANGED uiVars

\* the summary is back: emit it, send the mindmap prompt to chat_with_retry
PegasusIntel ==
    /\ pc = "p_intel"
    /\ intel_txt' = ret.content
    /\ events' = Append(events,
          Signal("vector_intel", queries[idx + 1], ret.content))
    /\ last_sig' = "vector_intel"
    /\ ret' = NoResponse
    /\ EnterChatWithRetry("mindmap")
    /\ UNCHANGED << phase, outcome, exc, model, response, queries, idx,
                    results, raw_texts, vector_summaries, context, sec,
                    sub_prompt >>
    /\ UNCHANGED agentVars
    /\ UNCHANGED uiVars

\* the mindmap is back: emit it, append the summary, log (else branch of
\* the try), progress
PegasusVectorDone ==
    /\ pc = "p_mindmap"
    /\ vector_summaries' = Append(vector_summaries,
          [query |-> queries[idx + 1], intel |-> intel_txt])
    /\ events' = events \o
          << Signal("analytical", queries[idx + 1], ret.content),
             Signal("progress", PegasusMiningProgress(idx + 1, Len(queries)), None) >>
    /\ last_sig' = "progress"
    /\ idx' = idx + 1
    /\ pc' = "p_mine"
    /\ LeaveChatWithRetry
    /\ UNCHANGED << phase, outcome, exc, model, caller, response, queries,
                    results, raw_texts, context, sec, max_retries, sub_prompt,
                    intel_txt >>
    /\ UNCHANGED agentVars
    /\ UNCHANGED uiVars

\* chat_with_retry raised for the summary or for the mindmap: log, progress
PegasusVectorFailed ==
    /\ pc = "p_vector_except"
    /\ exc' = NoException
    /\ PegasusNextVector
    /\ LeaveChatWithRetry
    /\ UNCHANGED << phase, outcome, model, caller, response, queries, results,
                    raw_texts, vector_summaries, context, sec, max_retries,
                    sub_prompt, intel_txt >>
    /\ UNCHANGED agentVars
    /\ UNCHANGED uiVars

\* the mining loop is over: log, join the summaries
PegasusBeginSynthesis ==
    /\ pc = "p_mine"
    /\ idx >= Len(queries)
    /\ context' = PegasusContext(vector_summaries)
    /\ sec' = 0
    /\ last_sig' = "log"
    /\ phase' = "synthesis"
    /\ pc' = "p_synth"
    /\ UNCHANGED << outcome, exc, model, caller, attempt, chatLog, ret,
                    response, queries, idx, results, raw_texts,
                    vector_summaries, events >>
    /\ UNCHANGED pegasusVars
    /\ UNCHANGED agentVars
    /\ UNCHANGED uiVars

\* one section: log, the section prompt goes to chat_with_retry
PegasusSectionCall ==
    /\ pc = "p_synth"
    /\ sec < PegasusNumSections
    /\ last_sig' = "log"
    /\ EnterChatWithRetry("section")
    /\ UNCHANGED << phase, outcome, exc, model, ret, response, queries, idx,
                    results, raw_texts, vector_summaries, context, sec, events,
                    sub_prompt, intel_txt >>
    /\ UNCHANGED agentVars
    /\ UNCHANGED uiVars

\* the section, or its placeholder, is emitted, then the progress
PegasusEmitSection(content) ==
    /\ events' = events \o
          << Signal("section", PegasusReportSections[sec + 1], content),
             Signal("progress",
                    PegasusSectionProgress(sec + 1, PegasusNumSections), None) >>
    /\ last_sig' = "progress"
    /\ sec' = sec + 1
    /\ pc' = "p_synth"

\* chat_with_retry returned the section
PegasusSectionOk ==
    /\ pc = "p_section"
    /\ PegasusEmitSection(ret.content)
    /\ LeaveChatWithRetry
    /\ UNCHANGED << phase, outcome, exc, model, caller, response, queries, idx,
                    results, raw_texts, vector_summaries, context, max_retries,
                    sub_prompt, intel_txt >>
    /\ UNCHANGED agentVars
    /\ UNCHANGED uiVars

\* chat_with_retry raised: log, emit the placeholder
PegasusSectionFailed ==
    /\ pc = "p_section_except"
    /\ exc' = NoException
    /\ PegasusEmitSection("*Section generation failed*")
    /\ LeaveChatWithRetry
    /\ UNCHANGED << phase, outcome, model, caller, response, queries, idx,
                    results, raw_texts, vector_summaries, context, max_retries,
                    sub_prompt, intel_txt >>
    /\ UNCHANGED agentVars
    /\ UNCHANGED uiVars

\* phase 3B: log, the chart prompt goes to chat_with_retry
PegasusChartCall ==
    /\ pc = "p_synth"
    /\ sec >= PegasusNumSections
    /\ last_sig' = "log"
    /\ EnterChatWithRetry("chart")
    /\ UNCHANGED << phase, outcome, exc, model, ret, response, queries, idx,
                    results, raw_texts, vector_summaries, context, sec, events,
                    sub_prompt, intel_txt >>
    /\ UNCHANGED agentVars
    /\ UNCHANGED uiVars

\* the chart data was emitted or a warning logged: progress 100,
\* finished_sig, then the SUCCESS log line
PegasusFinish ==
    /\ pc \in {"p_chart", "p_chart_except"}
    /\ exc' = NoException
    /\ events' = events \o
          << Signal("progress", 100, None), Signal("finished", None, None) >>
    /\ last_sig' = "log"
    /\ outcome' = "DONE"
    /\ pc' = "ended"
    /\ LeaveChatWithRetry
    /\ UNCHANGED << phase, model, caller, response, queries, idx, results,
                    raw_texts, vector_summaries, context, sec, max_retries,
                    sub_prompt, intel_txt >>
    /\ UNCHANGED agentVars
    /\ UNCHANGED uiVars

\* except Exception as e (line 278): log the error, then finished_sig
PegasusHandleException ==
    /\ pc = "p_raised"
    /\ events' = Append(events, Signal("finished", None, None))
    /\ last_sig' = "finished"
    /\ outcome' = "FAILED"
    /\ pc' = "ended"
    /\ UNCHANGED << phase, exc, model, caller, attempt, chatLog, ret, response,
                    queries, idx, results, raw_texts, vector_summaries,
                    context, sec >>
    /\ UNCHANGED pegasusVars
    /\ UNCHANGED agentVars
    /\ UNCHANGED uiVars

\* the state after __init__ (lines 58-77): self.model, self.vector_summaries
InitPegasus ==
    /\ pc = "p_start"
    /\ phase = "init"
    /\ outcome = "RUNNING"
    /\ exc = NoException
    /\ model = PEGASUS_MODEL
    /\ retries = DefaultRetries
    /\ caller = None
    /\ attempt = 0
    /\ last_error = 0
    /\ chatLog = << >>
    /\ ret = NoResponse
    /\ engaged = FALSE
    /\ switches = 0
    /\ response = None
    /\ queries = << >>
    /\ idx = 0
    /\ results = << >>
    /\ url = Unbound
    /\ raw_texts = << >>
    /\ vector_summaries = << >>
    /\ fetchLog = << >>
    /\ succeeded = << >>
    /\ section_prompts = << >>
    /\ input_subject = ""
    /\ btn_run = TRUE
    /\ threads = << >>
    /\ gui_queue = << >>
    /\ max_retries = DefaultMaxRetries
    /\ waits = << >>
    /\ sub_prompt = UnboundPrompt
    /\ intel_txt = Unbound
    /\ context = PegasusContext(<< >>)
    /\ sec = 0
    /\ events = << >>
    /\ last_sig = None

NextPegasus ==
    \/ PegasusStart
    \/ ChatWithRetryOk
    \/ ChatWithRetryFail
    \/ ChatWithRetryRaise
    \/ PegasusParse
    \/ PegasusMineVector
    \/ PegasusSearchFails
    \/ PegasusSearchReturns
    \/ PegasusLink
    \/ PegasusSummarizeUnbound
    \/ PegasusSummarizeCall
    \/ PegasusIntel
    \/ PegasusVectorDone
    \/ PegasusVectorFailed
    \/ PegasusBeginSynthesis
    \/ PegasusSectionCall
    \/ PegasusSectionOk
    \/ PegasusSectionFailed
    \/ PegasusChartCall
    \/ PegasusFinish
    \/ PegasusHandleException

SpecPegasus == InitPegasus /\ [][NextPegasus]_vars

(* ---------------- chat_with_retry on its own ---------------- *)
\* the requests of run, each in the state run makes it in on a run over the
\* one query [target] whose search returned one page
PegasusCallers == {"vectors", "summary", "mindmap", "section", "chart"}

SampleText ==
    Truncate([url |-> UrlOf(1, 1), extracted |-> PegasusMaxChars + 3000,
              len |-> PegasusMaxChars + 3000], PegasusMaxChars)

SampleSummary == [query |-> Target, intel |-> Intel(Target)]

\* the signals of the mining of the one query, up to the request
SampleMiningEvents(stage) ==
    CASE stage = "vectors" -> << >>
      [] stage = "summary" ->
            << Signal("query", Target, None), Signal("url", Target, UrlOf(1, 1)) >>
      [] stage = "mindmap" ->
            << Signal("query", Target, None), Signal("url", Target, UrlOf(1, 1)),
               Signal("vector_intel", Target, Intel(Target)) >>
      [] OTHER ->
            << Signal("query", Target, None), Signal("url", Target, UrlOf(1, 1)),
               Signal("vector_intel", Target, Intel(Target)),
               Signal("analytical", Target, "mindmap"),
               Signal("progress", PegasusMiningProgress(1, 1), None) >>

\* the signals of the sections, all generated
SampleSectionEvents ==
    [k \in 1..(2 * PegasusNumSections) |->
        IF k % 2 = 1
        THEN Signal("section", PegasusReportSections[(k + 1) \div 2],
                    SectionText(PegasusReportSections[(k + 1) \div 2]))
        ELSE Signal("progress",
                    PegasusSectionProgress(k \div 2, PegasusNumSections), None)]

InitChatWithRetry ==
    /\ pc = "cwr"
    /\ max_retries \in 0..(MaxRetries + 1)
    /\ caller \in PegasusCallers
    /\ phase = CASE caller = "vectors" -> "vectors"
                 [] caller \in {"summary", "mindmap"} -> "mining"
                 [] OTHER -> "synthesis"
    /\ outcome = "RUNNING"
    /\ exc = NoException
    /\ model = PEGASUS_MODEL
    /\ attempt = 0
    /\ chatLog = << >>
    /\ waits = << >>
    /\ ret = NoResponse
    /\ response = IF caller = "vectors" THEN None ELSE "no-bracket"
    /\ queries = IF caller = "vectors" THEN << >> ELSE TargetOnly
    /\ idx = IF caller \in {"section", "chart"} THEN 1 ELSE 0
    /\ results = << >>
    /\ raw_texts = IF caller = "vectors" THEN << >> ELSE << SampleText >>
    /\ sub_prompt = IF caller = "vectors" THEN UnboundPrompt
                    ELSE [q |-> Target, texts |-> << SampleText >>]
    /\ intel_txt = IF caller \in {"vectors", "summary"} THEN Unbound
                   ELSE Intel(Target)
    /\ vector_summaries =
          IF caller \in {"section", "chart"} THEN << SampleSummary >> ELSE << >>
    /\ context =
          IF caller \in {"section", "chart"}
          THEN PegasusContext(<< SampleSummary >>) ELSE PegasusContext(<< >>)
    /\ sec = IF caller = "chart" THEN PegasusNumSections ELSE 0
    /\ events = SampleMiningEvents(caller)
                   \o (IF caller = "chart" THEN SampleSectionEvents ELSE << >>)
    /\ last_sig = "log"
    /\ retries = DefaultRetries
    /\ last_error = 0
    /\ engaged = FALSE
    /\ switches = 0
    /\ url = Unbound
    /\ fetchLog = << >>
    /\ succeeded = << >>
    /\ section_prompts = << >>
    /\ input_subject = ""
    /\ btn_run = TRUE
    /\ threads = << >>
    /\ gui_queue = << >>

NextChatWithRetry ==
    \/ ChatWithRetryOk
    \/ ChatWithRetryFail
    \/ ChatWithRetryRaise
    \/ ChatWithRetryNone

SpecChatWithRetry == InitChatWithRetry /\ [][NextChatWithRetry]_vars

(* ---------------- properties of pegasus.py ---------------- *)
\* the waits after the first n failed attempts: 5, 10, ... seconds
WaitsUpTo(n) == [j \in 1..n |-> 5 * j]

\* C24: chat_with_retry with max_retries = m >= 1 calls the model it was
\* given, and only that one; when every call fails it has made exactly m
\* calls when it raises, having waited 5, 10, ... seconds after each failed
\* attempt but the last; when attempt j succeeds it returns after exactly j
\* calls (and j - 1 waits).
C24_ChatWithRetryAttempts ==
    /\ \A i \in DOMAIN chatLog :
          chatLog[i].model = PEGASUS_MODEL /\ chatLog[i].stage = caller
    /\ pc = "cwr" =>
          /\ Len(chatLog) = attempt
          /\ \A i \in DOMAIN chatLog : ~chatLog[i].ok
          /\ waits = WaitsUpTo(attempt)
    /\ pc = ChatWithRetryHandler(caller) =>
          /\ max_retries >= 1
          /\ exc.kind = "FailedAfter"
          /\ Len(chatLog) = max_retries
          /\ \A i \in DOMAIN chatLog : ~chatLog[i].ok
          /\ Len(waits) + 1 = max_retries
          /\ waits = WaitsUpTo(Len(waits))
    /\ (pc = ChatWithRetryReturnTo(caller) /\ max_retries >= 1) =>
          /\ ret.by \in 1..max_retries
          /\ Len(chatLog) = ret.by
          /\ \A i \in DOMAIN chatLog : chatLog[i].ok <=> i = ret.by
          /\ Len(waits) + 1 = ret.by
          /\ waits = WaitsUpTo(Len(waits))
          /\ ret.content \in PegasusResponses(caller)

\* C24 witness: three attempts failed, with waits of 5 and 10 seconds and
\* none after the last
C24_Witness ==
    /\ pc = ChatWithRetryHandler(caller)
    /\ max_retries = 3
    /\ Len(chatLog) = 3
    /\ waits = << 5, 10 >>

\* C23: in pegasus.py a query for which no text was extracted starts no
\* summarization: whenever a summarization request is with the LLM, texts
\* were extracted for the current query and the prompt holds exactly those
\* texts, under the name of the current query; every summary emitted or
\* appended is a summary of texts of its own query.
C23_NoTextNoSummary ==
    /\ (pc = "cwr" /\ caller = "summary") =>
          /\ raw_texts # << >>
          /\ sub_prompt.q = queries[idx + 1]
          /\ sub_prompt.texts = raw_texts
    /\ \A k \in DOMAIN events :
          events[k].sig = "vector_intel" => events[k].b = Intel(events[k].a)
    /\ \A i \in DOMAIN vector_summaries :
          vector_summaries[i].intel = Intel(vector_summaries[i].query)

\* C26: the vector_intel signals and the entries of vector_summaries
\* correspond one to one: whenever the mining of a query is over there are
\* as many signals as entries, and the k-th signal carries the query and the
\* summary of the k-th entry.
C26_IntelMatchesSummaries ==
    pc \in {"p_mine", "p_synth", "ended"} =>
        LET shown == Signals(events, "vector_intel")
        IN  /\ Len(shown) = Len(vector_summaries)
            /\ \A k \in DOMAIN shown :
                  /\ k \in DOMAIN vector_summaries
                  /\ shown[k].a = vector_summaries[k].query
                  /\ shown[k].b = vector_summaries[k].intel

\* C27: once finished_sig has been emitted it is the last signal of the
\* run, log_sig included.
C27_FinishedIsLast ==
    Len(Signals(events, "finished")) >= 1 =>
        /\ last_sig = "finished"
        /\ events[Len(events)].sig = "finished"

\* the position of run (agent.py) within one iteration, in program order
Position ==
    CASE pc = "start" -> 0
      [] pc = "chat" /\ caller = "vectors" -> 1
      [] pc = "parse" -> 2
      [] pc = "mine" -> 3
      [] pc = "search" -> 4
      [] pc = "fetch" -> 5
      [] pc = "summarize" -> 6
      [] pc = "chat" /\ caller = "summary" -> 7
      [] pc = "summarized" -> 8
      [] pc = "synth" -> 9
      [] pc = "raised" -> 10
      [] pc = "ended" -> 11

\* how far run has got: queries mined, position, attempts of the current
\* request, sections done (attempt and sec stay below 8, Position below 16)
Advance == ((idx * 16 + Position) * 8 + attempt) * 8 + sec

\* C25: every run of agent.py reaches its end (DONE or FAILED); no request
\* makes more than (retries + 1) + 1 chat calls, and every step takes run
\* forward in program order (no step leads back to an earlier position, query
\* or stage).
C25_RunTerminates ==
    /\ <>(pc = "ended" /\ outcome \in {"DONE", "FAILED"})
    /\ [](Len(chatLog) <= (retries + 1) + 1)
    /\ [][Advance' > Advance]_vars

\* C25 witness: a run over two queries has ended after its last section
C25_Witness ==
    /\ pc = "ended"
    /\ outcome = "DONE"
    /\ Len(queries) = 2
    /\ sec = NumSections

(* ======================================================================= *)
(* ui.py: PegasusTerminal driving workers                                   *)
(* ======================================================================= *)
\* A worker is followed through its positions relative to finished_sig:
\* "running" (run of agent.py up to line 232, or up to the raise), "emitted"
\* (finished_sig emitted at line 233, lines 234-236 still to run), "done"
\* (run returned after line 236), "failed" (run returned from the handler at
\* lines 238-239).  The worker object lives in the GUI thread, so the slots
\* connected to its signals are queued and run in the GUI thread, one at a
\* time and in emission order, as start_analysis does.

\* number of workers a session is followed for
MaxWorkers == 3

\* the variables of run, which the terminal does not touch
workerVars ==
    << pc, phase, outcome, exc, model, retries, caller, attempt, last_error,
       chatLog, ret, engaged, switches, response, queries, idx, results, url,
       raw_texts, vector_summaries, fetchLog, succeeded, section_prompts,
       context, sec, events, last_sig, max_retries, waits, sub_prompt,
       intel_txt >>

\* the workers inside run
Executing == { w \in DOMAIN threads : threads[w] \in {"running", "emitted"} }

\* the user edits the subject field
EditSubject ==
    /\ \E text \in {"", Target} \ {input_subject} : input_subject' = text
    /\ UNCHANGED << btn_run, threads, gui_queue >>
    /\ UNCHANGED workerVars

\* a click on the enabled deploy button with a subject: start_analysis
\* disables the button, creates the worker, connects its signals, starts it
StartAnalysis ==
    /\ btn_run
    /\ input_subject # ""
    /\ Len(threads) < MaxWorkers
    /\ btn_run' = FALSE
    /\ threads' = Append(threads, "running")
    /\ UNCHANGED << input_subject, gui_queue >>
    /\ UNCHANGED workerVars

\* worker thread: run reaches self.finished_sig.emit() (line 233); the call
\* of on_complete is queued for the GUI thread
WorkerEmitsFinished ==
    \E w \in DOMAIN threads :
    /\ threads[w] = "running"
    /\ threads' = [threads EXCEPT ![w] = "emitted"]
    /\ gui_queue' = Append(gui_queue, [slot |-> "on_complete", from |-> w])
    /\ UNCHANGED << input_subject, btn_run >>
    /\ UNCHANGED workerVars

\* worker thread: the SUCCESS line is logged (234-236) and run returns
WorkerReturns ==
    \E w \in DOMAIN threads :
    /\ threads[w] = "emitted"
    /\ threads' = [threads EXCEPT ![w] = "done"]
    /\ gui_queue' = Append(gui_queue, [slot |-> "log", from |-> w])
    /\ UNCHANGED << input_subject, btn_run >>
    /\ UNCHANGED workerVars

\* worker thread: an exception reaches the handler of run, which logs it
\* (238-239); run returns without finished_sig
WorkerFails ==
    \E w \in DOMAIN threads :
    /\ threads[w] = "running"
    /\ threads' = [threads EXCEPT ![w] = "failed"]
    /\ gui_queue' = Append(gui_queue, [slot |-> "log", from |-> w])
    /\ UNCHANGED << input_subject, btn_run >>
    /\ UNCHANGED workerVars

\* GUI thread: the next queued slot runs; on_complete enables the buttons
GuiDispatch ==
    /\ gui_queue # << >>
    /\ gui_queue' = Tail(gui_queue)
    /\ btn_run' = IF Head(gui_queue).slot = "on_complete" THEN TRUE ELSE btn_run
    /\ UNCHANGED << input_subject, threads >>
    /\ UNCHANGED workerVars

NextTerminal ==
    \/ EditSubject
    \/ StartAnalysis
    \/ WorkerEmitsFinished
    \/ WorkerReturns
    \/ WorkerFails
    \/ GuiDispatch

SpecTerminal == Init /\ [][NextTerminal]_vars

\* C28: at most one worker is inside run at any time, and while the deploy
\* button is enabled (a new worker can be created) no worker is inside run.
C28_OneWorkerAtATime ==
    /\ Cardinality(Executing) <= 1
    /\ btn_run => Executing = { }

====
